---- MODULE Spec2Model ----
(***************************************************************************)
(* Model of src/HumanCheck_v7.py: the ECGAnnotator window.                 *)
(*                                                                         *)
(* State: the fields of ECGAnnotator (user, root, tasks, cur,              *)
(* recheck_mode, df), what the window shows (status_label, canvas) and the *)
(* content of annotations.csv on disk.  One action per Qt slot; a slot     *)
(* runs to completion before the next event is dispatched.                 *)
(***************************************************************************)
EXTENDS Integers, Sequences, FiniteSets, TLC

VARIABLES user, root, tasks, cur, recheck_mode, df, csv, status_label, canvas,
          streak

vars == <<user, root, tasks, cur, recheck_mode, df, csv, status_label, canvas>>

\* streak is a history variable with no counterpart in the program: the
\* number of save_and_next calls made in a row since the last import_folder
\* that found tasks, or -1 when something else happened in between.
allvars == <<vars, streak>>

---------------------------------------------------------------------------
(* Bounds of the environment (the disk and the people at the keyboard).    *)

\* Sub-folder names, in the order sorted() gives them.
NAMES == <<"p1", "p2">>

Names == {NAMES[i] : i \in 1..Len(NAMES)}

\* Directories the user can pick in the directory dialog are DIRS[1..NumDirs].
NumDirs == 2

DIRS == <<"d1", "d2", "d3">>

DataDirs == {DIRS[i] : i \in 1..NumDirs}

\* Annotator ids typed at the login prompt (already stripped, non-empty).
Users == {"u1", "u2"}

---------------------------------------------------------------------------
(* Program constants.                                                      *)

\* The three label buttons / shortcuts.
UNKNOWN == 999

Labels == {0, 1, UNKNOWN}

\* A missing cell of a numeric column (pandas NaN).
NaN == -1

\* A missing cell of a text column; to_csv writes every missing cell as "".
NoText == ""

\* self.root = None
NoRoot == "None"

\* QFileDialog returns "" when the dialog is cancelled.
Cancelled == ""

COLS == <<"filename", "foldername", "is_malignant", "annotator",
          "is_malignant_2nd", "annotator_2nd">>

---------------------------------------------------------------------------
(* The disk: what iterdir(), is_dir() and exists() answer.                 *)

Rank(n) == CHOOSE i \in 1..Len(NAMES) : NAMES[i] = n

\* d1 holds every sub-folder, d2 lacks p1 and d3 lacks p2.  Each directory
\* also holds a plain file, which is no task.
DirEntries(r) ==
    (CASE r = "d1" -> Names
       [] r = "d2" -> Names \ {"p1"}
       [] OTHER    -> Names \ {"p2"}) \cup {"notes.txt"}

IsDir(r, e) == e \in DirEntries(r) /\ e # "notes.txt"

Exists(r, e) == e \in DirEntries(r)

Path(r, n) == [parent |-> r, name |-> n]

---------------------------------------------------------------------------
(* Pure helpers.                                                           *)

RECURSIVE SortedNames(_)
SortedNames(S) ==
    IF S = {} THEN <<>>
    ELSE LET m == CHOOSE x \in S : \A y \in S : Rank(x) <= Rank(y)
         IN  <<m>> \o SortedNames(S \ {m})

Filenames(d) == {d[i].filename : i \in DOMAIN d}

\* Index of the first row whose filename is n; 0 when mask.any() is false.
RowOf(d, n) ==
    IF n \in Filenames(d)
    THEN CHOOSE i \in DOMAIN d : d[i].filename = n /\ \A j \in 1..(i-1) : d[j].filename # n
    ELSE 0

EmptyFrame == <<>>

---------------------------------------------------------------------------
(* CSV: DataFrame.to_csv and pd.read_csv.  A file is a sequence of lines,  *)
(* a line a sequence of text fields.  Numbers are written as digits and a  *)
(* missing cell as the empty field; reading turns the empty field back     *)
(* into a missing cell.  Folder names and annotator ids are taken to be    *)
(* texts read_csv returns as written (not "", "NA", "nan", ...).           *)

FmtNum(v) == IF v = NaN THEN "" ELSE ToString(v)

ParseNum(s) == IF s = "" THEN NaN ELSE CHOOSE v \in Labels : ToString(v) = s

Line(row) == <<row.filename, row.foldername, FmtNum(row.is_malignant), row.annotator,
               FmtNum(row.is_malignant_2nd), row.annotator_2nd>>

ParseLine(l) == [filename |-> l[1], foldername |-> l[2], is_malignant |-> ParseNum(l[3]),
                 annotator |-> l[4], is_malignant_2nd |-> ParseNum(l[5]),
                 annotator_2nd |-> l[6]]

\* to_csv(index=False): the header, then one line per row.
to_csv(d) == [exists |-> TRUE, lines |-> <<COLS>> \o [i \in 1..Len(d) |-> Line(d[i])]]

\* read_csv raises on a file with no header line; _load_db swallows it.
_load_db(f) ==
    IF f.exists /\ Len(f.lines) > 0
    THEN [i \in 1..(Len(f.lines) - 1) |-> ParseLine(f.lines[i + 1])]
    ELSE EmptyFrame

NoFile == [exists |-> FALSE, lines |-> <<>>]

---------------------------------------------------------------------------
(* show_current: what the window shows after the call.  status_label is    *)
(* the kind of text in the label; canvas is the last call made on the      *)
(* canvas: none ("blank"), draw_record ("drawn") or fig.clear ("cleared"). *)

View(s, c) == [status |-> s, canvas |-> c]

\* Variant: the except branch sets the error label but leaves the figure.
ShowCurrentNoClear(c, ts, mode, readok, old) ==
    IF c < 0 \/ c >= Len(ts) THEN old
    ELSE IF readok
         THEN View(IF mode THEN "recheck" ELSE "first", "drawn")
         ELSE View("error", old.canvas)

ShowCurrent(c, ts, mode, readok, old) ==
    IF c < 0 \/ c >= Len(ts) THEN old
    ELSE IF readok
         THEN View(IF mode THEN "recheck" ELSE "first", "drawn")
         ELSE View("error", "cleared")

---------------------------------------------------------------------------
(* import_folder                                                           *)

\* Variant: the "done" filter is dropped.
ImportTasksNoSkip(r, d) ==
    LET dirs == SortedNames({e \in DirEntries(r) : IsDir(r, e)})
    IN  [i \in 1..Len(dirs) |-> Path(r, dirs[i])]

\* Variant: the "nothing to label" return is taken before self.tasks is assigned.
ImportTasksKeepOld(r, d) ==
    LET dirs == SortedNames({e \in DirEntries(r) : IsDir(r, e)})
        keep(n) == n \notin Filenames(d)
        todo == SelectSeq(dirs, keep)
    IN  IF todo = <<>> THEN tasks ELSE [i \in 1..Len(todo) |-> Path(r, todo[i])]

ImportTasks(r, d) ==
    LET dirs == SortedNames({e \in DirEntries(r) : IsDir(r, e)})
        done == Filenames(d)
        keep(n) == n \notin done
        todo == SelectSeq(dirs, keep)
    IN  [i \in 1..Len(todo) |-> Path(r, todo[i])]

import_folder(path, readok) ==
    IF path = Cancelled
    THEN UNCHANGED vars
    ELSE LET ts == ImportTasks(path, df)
             c  == IF ts = <<>> THEN cur ELSE 0
             v  == IF ts = <<>> THEN View(status_label, canvas)
                   ELSE ShowCurrent(c, ts, FALSE, readok, View(status_label, canvas))
         IN  /\ UNCHANGED <<user, df, csv>>
             /\ root' = path
             /\ recheck_mode' = FALSE
             /\ tasks' = ts
             /\ cur' = c
             /\ status_label' = v.status
             /\ canvas' = v.canvas

---------------------------------------------------------------------------
(* start_recheck                                                           *)

\* Variant: the test on the first-pass label is dropped.
RecheckMaskAnyLabel(row) == row.is_malignant_2nd = NaN

RecheckMask(row) == row.is_malignant = UNKNOWN /\ row.is_malignant_2nd = NaN

RecheckTargets(d) ==
    LET rows == SelectSeq(d, RecheckMask)
    IN  [i \in 1..Len(rows) |-> rows[i].filename]

RecheckTasks(r, d) ==
    LET there(f) == Exists(r, f)
        fs == SelectSeq(RecheckTargets(d), there)
    IN  [i \in 1..Len(fs) |-> Path(r, fs[i])]

\* None of the three early returns is taken.
RecheckRuns(p) ==
    /\ df # EmptyFrame
    /\ RecheckTargets(df) # <<>>
    /\ ~(root = NoRoot /\ p = Cancelled)

start_recheck(p, readok) ==
    IF ~RecheckRuns(p)
    THEN UNCHANGED vars
    ELSE LET r  == IF root = NoRoot THEN p ELSE root
             ts == RecheckTasks(r, df)
             v  == ShowCurrent(0, ts, TRUE, readok, View(status_label, canvas))
         IN  /\ UNCHANGED <<user, df, csv>>
             /\ recheck_mode' = TRUE
             /\ cur' = 0
             /\ root' = r
             /\ tasks' = ts
             /\ status_label' = v.status
             /\ canvas' = v.canvas

---------------------------------------------------------------------------
(* next, prev                                                              *)

\* Variant: prev stops one step too late.
AtFirstOffByOne(c) == c < 0

\* Variant: the cursor wraps around at the last task.
AdvanceWrap(c, ts, mode, readok, old) ==
    IF c >= Len(ts) - 1
    THEN [cur |-> 0, view |-> ShowCurrent(0, ts, mode, readok, old)]
    ELSE [cur |-> c + 1, view |-> ShowCurrent(c + 1, ts, mode, readok, old)]

AtLast(c, ts) == c >= Len(ts) - 1

AtFirst(c) == c <= 0

Advance(c, ts, mode, readok, old) ==
    IF AtLast(c, ts) THEN [cur |-> c, view |-> old]
    ELSE [cur |-> c + 1, view |-> ShowCurrent(c + 1, ts, mode, readok, old)]

next(readok) ==
    LET a == Advance(cur, tasks, recheck_mode, readok, View(status_label, canvas))
    IN  /\ UNCHANGED <<user, root, tasks, recheck_mode, df, csv>>
        /\ cur' = a.cur
        /\ status_label' = a.view.status
        /\ canvas' = a.view.canvas

prev(readok) ==
    IF AtFirst(cur)
    THEN UNCHANGED vars
    ELSE LET v == ShowCurrent(cur - 1, tasks, recheck_mode, readok,
                              View(status_label, canvas))
         IN  /\ UNCHANGED <<user, root, tasks, recheck_mode, df, csv>>
             /\ cur' = cur - 1
             /\ status_label' = v.status
             /\ canvas' = v.canvas

---------------------------------------------------------------------------
(* save_and_next                                                           *)

SaveGuard(c, ts) == c >= 0 /\ ts # <<>>

NewRow(name, folder, val, who) ==
    [filename |-> name, foldername |-> folder, is_malignant |-> val, annotator |-> who,
     is_malignant_2nd |-> NaN, annotator_2nd |-> NoText]

\* Variant: every save appends.
SaveRowAppendOnly(d, name, folder, val, who, mode) ==
    Append(d, [filename |-> name, foldername |-> folder, is_malignant |-> val,
               annotator |-> who, is_malignant_2nd |-> NaN, annotator_2nd |-> NoText])

\* Variant: an existing row gets the first-pass columns written whatever the mode.
SaveRowIgnoreMode(d, name, folder, val, who, mode) ==
    IF name \in Filenames(d)
    THEN [d EXCEPT ![RowOf(d, name)].is_malignant = val, ![RowOf(d, name)].annotator = who]
    ELSE Append(d, [filename |-> name, foldername |-> folder, is_malignant |-> val,
                    annotator |-> who, is_malignant_2nd |-> NaN, annotator_2nd |-> NoText])

SaveRow(d, name, folder, val, who, mode) ==
    LET idx == RowOf(d, name)
    IN  IF idx # 0
        THEN IF mode
             THEN [d EXCEPT ![idx].is_malignant_2nd = val, ![idx].annotator_2nd = who]
             ELSE [d EXCEPT ![idx].is_malignant = val, ![idx].annotator = who]
        ELSE Append(d, NewRow(name, folder, val, who))

\* Variant: the file is written before the table is edited.
WrittenStale(old, new) == to_csv(old)

\* What save_and_next hands to to_csv: the table after the edit.
Written(old, new) == to_csv(new)

save_and_next(val, readok) ==
    IF ~SaveGuard(cur, tasks)
    THEN UNCHANGED vars
    ELSE LET name == tasks[cur + 1].name
             d    == SaveRow(df, name, root, val, user, recheck_mode)
             a    == Advance(cur, tasks, recheck_mode, readok, View(status_label, canvas))
         IN  /\ UNCHANGED <<user, root, tasks, recheck_mode>>
             /\ df' = d
             /\ csv' = Written(df, d)
             /\ cur' = a.cur
             /\ status_label' = a.view.status
             /\ canvas' = a.view.canvas

---------------------------------------------------------------------------
(* Program start: __init__ with _load_db and _login.                       *)

Unloaded == "unloaded"

Launch(name, f) ==
    /\ user' = name
    /\ root' = NoRoot
    /\ tasks' = <<>>
    /\ cur' = -1
    /\ recheck_mode' = FALSE
    /\ df' = _load_db(f)
    /\ csv' = f
    /\ status_label' = Unloaded
    /\ canvas' = "blank"

Init ==
    /\ \E name \in Users :
          /\ user = name
          /\ root = NoRoot
          /\ tasks = <<>>
          /\ cur = -1
          /\ recheck_mode = FALSE
          /\ df = _load_db(NoFile)
          /\ csv = NoFile
          /\ status_label = Unloaded
          /\ canvas = "blank"
    /\ streak = -1

\* The window is closed and the program is started again.
Relaunch(name) == Launch(name, csv)

\* The process dies inside to_csv of a save_and_next that passed its guards:
\* open(path, "w") has truncated the file and only the first k lines of the
\* new content have reached the disk.  Then the program is started again.
CrashInSave(val, k, name) ==
    /\ SaveGuard(cur, tasks)
    /\ LET d    == SaveRow(df, tasks[cur + 1].name, root, val, user, recheck_mode)
           full == Written(df, d)
       IN  /\ k \in 0..Len(full.lines)
           /\ Launch(name, [exists |-> TRUE, lines |-> SubSeq(full.lines, 1, k)])

Paths == DataDirs \cup {Cancelled}

StreakAfterSave == IF streak >= 0 /\ streak < Len(tasks) THEN streak + 1 ELSE -1

Next ==
    \/ \E path \in Paths, ok \in BOOLEAN :
          import_folder(path, ok) /\ streak' = IF tasks' # <<>> /\ path # Cancelled THEN 0 ELSE -1
    \/ \E p \in Paths, ok \in BOOLEAN : start_recheck(p, ok) /\ streak' = -1
    \/ \E val \in Labels, ok \in BOOLEAN : save_and_next(val, ok) /\ streak' = StreakAfterSave
    \/ \E ok \in BOOLEAN : next(ok) /\ streak' = -1
    \/ \E ok \in BOOLEAN : prev(ok) /\ streak' = -1
    \/ \E name \in Users : Relaunch(name) /\ streak' = -1

Spec == Init /\ [][Next]_allvars

Crash ==
    \E val \in Labels, k \in 0..(Len(NAMES) + 1), name \in Users :
        CrashInSave(val, k, name) /\ streak' = -1

CrashSpec == Init /\ [][Next \/ Crash]_allvars

---------------------------------------------------------------------------
(* Properties.                                                             *)

\* The task at the cursor (meaningful when SaveGuard holds and cur is in range).
CurName == tasks[cur + 1].name

\* A save_and_next that passes its guards.
SaveStep(val, ok) == SaveGuard(cur, tasks) /\ save_and_next(val, ok)

HasRow(d, n) == \E i \in DOMAIN d : d[i].filename = n

NoDuplicateFilenames == \A i, j \in DOMAIN df : df[i].filename = df[j].filename => i = j

\* C1: the table holds at most one row per filename; a save appends a row
\* exactly when no row carries the current task's name, and otherwise keeps
\* the rows and their filenames as they are.
C1_OneRowPerFilename ==
    /\ []NoDuplicateFilenames
    /\ [][\A val \in Labels, ok \in BOOLEAN :
            SaveStep(val, ok) =>
                IF HasRow(df, CurName)
                THEN /\ Len(df') = Len(df)
                     /\ \A i \in DOMAIN df : df'[i].filename = df[i].filename
                ELSE /\ Len(df') = Len(df) + 1
                     /\ SubSeq(df', 1, Len(df)) = df
                     /\ df'[Len(df')].filename = CurName]_allvars

\* C1 witness: every name has been appended once and one row has been
\* mutated in place by a recheck.
C1_Witness ==
    /\ Len(df) = Len(NAMES)
    /\ \E i \in DOMAIN df : df[i].is_malignant_2nd # NaN

\* The file holds the header and, line by line, the rows of the table.
FileIsTable(f, d) ==
    /\ f.exists
    /\ Len(f.lines) = Len(d) + 1
    /\ f.lines[1] = COLS
    /\ \A i \in DOMAIN d : ParseLine(f.lines[i + 1]) = d[i]

\* C2: after a save that passes its guards the file is the whole table, and
\* no step other than such a save changes the table or the file.
C2_FullRewrite ==
    /\ [][\A val \in Labels, ok \in BOOLEAN :
            SaveStep(val, ok) => FileIsTable(csv', df')]_allvars
    /\ [][(df' # df \/ csv' # csv) =>
            \E val \in Labels, ok \in BOOLEAN : SaveStep(val, ok)]_allvars

\* C2 witness: two rows have been saved and the file holds both.
C2_Witness == Len(df) = 2 /\ csv.exists /\ Len(csv.lines) = 3

\* Every row of old is still in new, as it was or as the interrupted save
\* (whose result is mid) was about to leave it.
LabelsKept(old, mid, new) ==
    \A i \in DOMAIN old : \E j \in DOMAIN new : new[j] = old[i] \/ new[j] = mid[i]

\* C3: after a crash inside the rewrite, the table loaded at the next start
\* contains every label recorded by the saves completed before the crash.
C3_CrashSafe ==
    [][\A val \in Labels, k \in 0..(Len(NAMES) + 1), name \in Users :
         CrashInSave(val, k, name) =>
            LabelsKept(df, SaveRow(df, CurName, root, val, user, recheck_mode), df')]_allvars

\* The sub-folders of directory r that have no row in table d.
Unlabeled(r, d) == {n \in DirEntries(r) : IsDir(r, n) /\ ~HasRow(d, n)}

\* C4: a chosen directory makes the task list exactly its unlabeled
\* sub-folders in sorted order, turns recheck mode off and puts the cursor
\* at 0 when the list is non-empty; a cancelled dialog changes nothing.
C4_ImportSkipsLabeled ==
    [][\A path \in Paths, ok \in BOOLEAN :
         import_folder(path, ok) =>
            IF path = Cancelled
            THEN UNCHANGED <<root, tasks, cur, recheck_mode>>
            ELSE /\ root' = path
                 /\ recheck_mode' = FALSE
                 /\ Len(tasks') = Cardinality(Unlabeled(path, df))
                 /\ \A i \in DOMAIN tasks' :
                        /\ tasks'[i].parent = path
                        /\ tasks'[i].name \in Unlabeled(path, df)
                 /\ \A i, j \in DOMAIN tasks' :
                        i < j => Rank(tasks'[i].name) < Rank(tasks'[j].name)
                 /\ (tasks' # <<>> => cur' = 0)]_allvars

\* C4 witness: d1 was imported while p1 already had a row, so only p2 is a task.
C4_Witness ==
    /\ root = "d1"
    /\ ~recheck_mode
    /\ tasks = <<Path("d1", "p2")>>
    /\ cur = 0
    /\ HasRow(df, "p1")

\* C5 as stated: a recheck-mode save writes only to a row whose first-pass
\* label is 999 and whose is_malignant_2nd is still missing when it is written.
C5_Original ==
    [][\A val \in Labels, ok \in BOOLEAN :
         (recheck_mode /\ SaveStep(val, ok)) =>
            /\ HasRow(df, CurName)
            /\ df[RowOf(df, CurName)].is_malignant = UNKNOWN
            /\ df[RowOf(df, CurName)].is_malignant_2nd = NaN]_allvars

\* C5 amended: start_recheck builds the task list from rows whose first-pass
\* label is 999 and whose is_malignant_2nd is missing at that moment; the
\* list then stays as built while the mode lasts, and a recheck-mode save
\* writes only to the row of the task at the cursor, whose first-pass label
\* is 999 (its second label may already have been written in this pass).
C5_RecheckRestricted ==
    /\ [][\A p \in Paths, ok \in BOOLEAN :
            (RecheckRuns(p) /\ start_recheck(p, ok)) =>
                \A i \in DOMAIN tasks' :
                    /\ recheck_mode'
                    /\ HasRow(df, tasks'[i].name)
                    /\ df[RowOf(df, tasks'[i].name)].is_malignant = UNKNOWN
                    /\ df[RowOf(df, tasks'[i].name)].is_malignant_2nd = NaN]_allvars
    /\ [][(recheck_mode /\ recheck_mode' /\ tasks' # tasks) =>
            \E p \in Paths, ok \in BOOLEAN : start_recheck(p, ok)]_allvars
    /\ [][(~recheck_mode /\ recheck_mode') =>
            \E p \in Paths, ok \in BOOLEAN : start_recheck(p, ok)]_allvars
    /\ [][\A val \in Labels, ok \in BOOLEAN :
            (recheck_mode /\ SaveStep(val, ok)) =>
                /\ HasRow(df, CurName)
                /\ df[RowOf(df, CurName)].is_malignant = UNKNOWN
                /\ \A i \in DOMAIN df : i # RowOf(df, CurName) => df'[i] = df[i]]_allvars

\* C5 witness: in recheck mode the task at the cursor already carries a
\* second label, and a save is still possible on it.
C5_Witness ==
    /\ recheck_mode
    /\ SaveGuard(cur, tasks)
    /\ cur < Len(tasks)
    /\ HasRow(df, CurName)
    /\ df[RowOf(df, CurName)].is_malignant_2nd # NaN

FirstPassCols(row) == <<row.filename, row.foldername, row.is_malignant, row.annotator>>

SecondPassCols(row) == <<row.is_malignant_2nd, row.annotator_2nd>>

\* C6: a recheck-mode save appends nothing and leaves the four first-pass
\* columns of every row, and every other row entirely, as they were; a
\* first-pass save leaves the second-pass columns of every row as they were
\* and appends only rows without a second-pass label; and any step after
\* which a row carries second-pass columns it did not carry before is a
\* recheck-mode save on that row.
C6_ModeDecidesColumns ==
    /\ [][\A val \in Labels, ok \in BOOLEAN :
            SaveStep(val, ok) =>
                IF recheck_mode
                THEN /\ Len(df') = Len(df)
                     /\ \A i \in DOMAIN df :
                            /\ FirstPassCols(df'[i]) = FirstPassCols(df[i])
                            /\ (df[i].filename # CurName => df'[i] = df[i])
                ELSE /\ \A i \in DOMAIN df :
                            i \in DOMAIN df' /\ SecondPassCols(df'[i]) = SecondPassCols(df[i])
                     /\ \A i \in DOMAIN df' :
                            i \notin DOMAIN df => SecondPassCols(df'[i]) = <<NaN, NoText>>]_allvars
    /\ [][\A i \in DOMAIN df' :
            (/\ SecondPassCols(df'[i]) # <<NaN, NoText>>
             /\ (i \in DOMAIN df => SecondPassCols(df'[i]) # SecondPassCols(df[i]))) =>
                /\ recheck_mode
                /\ SaveGuard(cur, tasks)
                /\ df'[i].filename = CurName
                /\ \E val \in Labels, ok \in BOOLEAN : save_and_next(val, ok)]_allvars

\* C6 witness: a row labeled by one annotator in the first pass and by
\* another in recheck mode.
C6_Witness ==
    \E i \in DOMAIN df :
        /\ df[i].is_malignant = UNKNOWN
        /\ df[i].is_malignant_2nd \in Labels
        /\ df[i].annotator_2nd # NoText
        /\ df[i].annotator_2nd # df[i].annotator

\* C7: a failed read shows the error label and clears the canvas; it moves
\* the cursor exactly as a successful read does; and with the error label
\* showing, save_and_next still records the label and next and prev still
\* move the cursor.
C7_ReadFailureOnlyShown ==
    /\ [][(\/ tasks' # <<>> /\ \E path \in DataDirs : import_folder(path, FALSE)
           \/ tasks' # <<>> /\ \E p \in Paths : RecheckRuns(p) /\ start_recheck(p, FALSE)
           \/ tasks # <<>> /\ cur' # cur /\ next(FALSE)
           \/ tasks # <<>> /\ cur' # cur /\ prev(FALSE)
           \/ cur' # cur /\ \E val \in Labels : SaveStep(val, FALSE)) =>
              status_label' = "error" /\ canvas' = "cleared"]_allvars
    /\ [](Advance(cur, tasks, recheck_mode, FALSE, View(status_label, canvas)).cur
            = Advance(cur, tasks, recheck_mode, TRUE, View(status_label, canvas)).cur)
    /\ [][status_label = "error" =>
            /\ \A val \in Labels, ok \in BOOLEAN :
                   SaveStep(val, ok) =>
                       /\ HasRow(df', CurName)
                       /\ cur' = IF cur < Len(tasks) - 1 THEN cur + 1 ELSE cur
            /\ \A ok \in BOOLEAN :
                   next(ok) => cur' = IF cur < Len(tasks) - 1 THEN cur + 1 ELSE cur
            /\ \A ok \in BOOLEAN :
                   prev(ok) => cur' = IF cur > 0 THEN cur - 1 ELSE cur]_allvars

\* C7 witness: the read of the second task failed and the first task has a row.
C7_Witness ==
    /\ status_label = "error"
    /\ canvas = "cleared"
    /\ cur = 1
    /\ Len(tasks) = 2
    /\ HasRow(df, tasks[1].name)

\* C8: a save on a non-empty task list records val and the user for the task
\* at the cursor and moves the cursor forward by one, except at the last
\* task; after an import that found n tasks, n saves in a row leave every
\* task with a row and the cursor at n-1.
C8_LabelAndAdvance ==
    /\ [][\A val \in Labels, ok \in BOOLEAN :
            SaveStep(val, ok) =>
                /\ HasRow(df', CurName)
                /\ LET r == df'[RowOf(df', CurName)]
                   IN  IF recheck_mode
                       THEN r.is_malignant_2nd = val /\ r.annotator_2nd = user
                       ELSE r.is_malignant = val /\ r.annotator = user
                /\ cur' = IF cur = Len(tasks) - 1 THEN cur ELSE cur + 1]_allvars
    /\ []((streak > 0 /\ streak = Len(tasks)) =>
            /\ cur = Len(tasks) - 1
            /\ \A i \in DOMAIN tasks : HasRow(df, tasks[i].name))

\* C8 witness: the import found two tasks and two saves followed.
C8_Witness == streak = 2 /\ Len(tasks) = 2 /\ cur = 1 /\ Len(df) = 2

CursorInRange == tasks # <<>> => (0 <= cur /\ cur < Len(tasks))

\* C9: whenever the task list is non-empty the cursor indexes it; next at
\* the last task and prev at the first task leave the cursor where it is.
C9_CursorInRange ==
    /\ []CursorInRange
    /\ [][\A ok \in BOOLEAN :
            /\ (next(ok) /\ cur = Len(tasks) - 1) => cur' = cur
            /\ (prev(ok) /\ cur = 0) => cur' = cur]_allvars

\* C9 witness: the cursor stands on the last of two tasks.
C9_Witness == Len(tasks) = 2 /\ cur = 1

\* C10: every task is a direct child of the current root, and a row
\* appended by a save carries as foldername the directory its task was
\* enumerated from.
C10_TasksUnderRoot ==
    /\ [](\A i \in DOMAIN tasks : tasks[i].parent = root /\ Exists(root, tasks[i].name))
    /\ [][\A val \in Labels, ok \in BOOLEAN :
            (SaveStep(val, ok) /\ Len(df') > Len(df)) =>
                df'[Len(df')].foldername = tasks[cur + 1].parent]_allvars

\* C10 witness: p2 was labeled from d2, and the session has since moved on
\* to tasks enumerated from d1.
C10_Witness ==
    /\ root = "d1"
    /\ tasks # <<>>
    /\ \E i \in DOMAIN df : df[i].filename = "p2" /\ df[i].foldername = "d2"

====
